---- MODULE Spec2Model ----
(***************************************************************************)
(* Model of orion-equatorial.ino: the control loop of a telescope platform *)
(* drive (Arduino Uno).  One push button cycles Idle -> Hold -> Run, a     *)
(* 4-digit display shows the remaining run time, and a run stops by itself *)
(* after MAX_DURATION_MSEC of logical time.                                *)
(*                                                                         *)
(* unsigned long is 32 bits wide on the target.  TLC's integers are 32-bit *)
(* signed, so a 32-bit unsigned value is kept as two 16-bit limbs          *)
(* <<hi, lo>> with value hi * 65536 + lo.  The same pair with an unbounded *)
(* hi is used for mathematical (never wrapping) time.                      *)
(***************************************************************************)
EXTENDS Integers, Sequences, FiniteSets, TLC

(***************************************************************************)
(* Limb arithmetic                                                         *)
(***************************************************************************)
Limb == 65536

Norm(h, l) == <<h + (l \div Limb), l % Limb>>

FromInt(i) == Norm(0, i)

WAdd(a, b) == Norm(a[1] + b[1], a[2] + b[2])

WAddInt(a, i) == Norm(a[1], a[2] + i)

WMul(a, k) == Norm(a[1] * k, a[2] * k)

WLess(a, b) == a[1] < b[1] \/ (a[1] = b[1] /\ a[2] < b[2])

WLeq(a, b) == a = b \/ WLess(a, b)

\* a - b for a >= b
WSub(a, b) == Norm(a[1] - b[1] - 1, a[2] - b[2] + Limb)

\* number of times a mathematical time has passed 2^32
Epoch(a) == a[1] \div Limb

\* conversion to unsigned long: reduction modulo 2^32
Wrap32(a) == <<a[1] % Limb, a[2]>>

U32Add(a, b) == Wrap32(WAdd(a, b))

U32Sub(a, b) == Wrap32(Norm(a[1] - b[1] - 1 + Limb, a[2] - b[2] + Limb))

U32Mul(a, k) == Wrap32(WMul(a, k))

U32Geq(a, b) == WLeq(b, a)

\* a / k of unsigned long a, for 0 < k <= 1000
U32Div(a, k) == <<a[1] \div k, (((a[1] % k) * Limb) + a[2]) \div k>>

\* an unsigned long below 2^31 as an integer
ToInt(a) == a[1] * Limb + a[2]

(***************************************************************************)
(* Program constants                                                       *)
(***************************************************************************)
USEC_PER_USTEP == 100093

MAX_DURATION_MSEC == FromInt(3000000)

DISP_EXPIRED_MSEC == FromInt(6000000)

LOOP_DELAY_MSEC == 10

ST_INIT == 0

ST_IDLE == 1

ST_HOLD == 2

ST_RUN == 3

HIGH == 1

LOW == 0

HoldDisp == <<118, 92, 56, 94>>

IdleDisp == <<6, 94, 56, 121>>

\* static int8_t LastTimeDisp[4] = {0,0,0,0}
LastTimeDispInit == <<0, 0, 0, 0>>

(***************************************************************************)
(* Bounds of the model                                                     *)
(***************************************************************************)
\* executions of loop() (single or batched) in one behaviour
MaxCycles == 8

\* milliseconds that may pass between two clock reads of one loop()
MaxJitter == 1

\* calls of myMillis() that are counted, and made in one behaviour of SpecClock
MaxReads == 4

VARIABLES
    state,              \* static int state
    lastButtonReading,  \* static bool lastButtonReading
    stopTime,           \* static unsigned long stopTime
    steppingOn,         \* bool steppingOn
    debugTimeMult,      \* int debugTimeMult
    bootReading,        \* what digitalRead(MODE_BUTTON_PIN) returned in setup()
    LastTimeDisp,       \* static int8_t LastTimeDisp[4], as bytes
    display,            \* segments last given to tm1637.setSegments, <<>> if none
    enablePin,          \* STEPPER_ENABLE_PIN
    stepPin,            \* STEPPER_STEP_PIN
    dirPin,             \* STEPPER_DIR_PIN
    timerPeriod,        \* period given to Timer1.initialize
    clock,              \* raw milliseconds since boot, mathematical
    buttonWasPressed,   \* local of the last loop()
    cycles,             \* executions of loop() so far
    dispLog,            \* the last call of dispTime
    runLog,             \* clock reads that armed and examined the deadline
    readLog,            \* the last two calls of myMillis()
    pc,                 \* the statement of loop() that is next, when it runs stepwise
    newStateVar,        \* int newState, the local of loop(), when it runs stepwise
    isrPc,              \* where takeStepISR is: "out" of it, or in its "pulse"
    isrLog              \* firings of takeStepISR and pulses on STEPPER_STEP_PIN

vars == <<state, lastButtonReading, stopTime, steppingOn, debugTimeMult, bootReading,
          LastTimeDisp, display, enablePin, stepPin, dirPin, timerPeriod,
          clock, buttonWasPressed, cycles, dispLog, runLog, readLog,
          pc, newStateVar, isrPc, isrLog>>

(***************************************************************************)
(* Time source                                                             *)
(***************************************************************************)
\* millis() when the mathematical clock is c
millis(c) == Wrap32(c)

myMillisOf(c, mult) == U32Mul(millis(c), mult)

myMillis(c) == myMillisOf(c, debugTimeMult)

\* unwrapped logical time: the product without the reduction modulo 2^32
LogicalTime(c) == WMul(c, debugTimeMult)

\* calls of myMillis() are counted up to MaxReads
Counted(n) == IF n < MaxReads THEN n ELSE MaxReads

\* one more call of myMillis(), made when the clock is c
PushRead(log, c) ==
    [prev |-> log.cur,
     cur |-> [ms |-> millis(c), my |-> myMillis(c)],
     reads |-> Counted(log.reads + 1)]

(***************************************************************************)
(* Display renderer                                                        *)
(***************************************************************************)
\* digitToSegment of the TM1637 library, for 0..15
digitToSegment == <<63, 6, 91, 79, 102, 109, 125, 7, 127, 111, 119, 124, 57, 94, 121, 113>>

encodeDigit(digit) == digitToSegment[(digit % 16) + 1]

Or80(byte) == IF byte >= 128 THEN byte ELSE byte + 128

\* secTime = (msecTime + 999) / 1000, in unsigned long
secTimeOf(msecTime) == ToInt(U32Div(U32Add(msecTime, FromInt(999)), 1000))

\* the threshold compared with > for >=
IsExpiredStrict(msecTime) == WLess(DISP_EXPIRED_MSEC, msecTime)

IsExpired(msecTime) == U32Geq(msecTime, DISP_EXPIRED_MSEC)

secondOf(msecTime) == IF IsExpired(msecTime) THEN 0 ELSE secTimeOf(msecTime) % 60

minuteOf(msecTime) == IF IsExpired(msecTime) THEN 0 ELSE secTimeOf(msecTime) \div 60

\* TimeDisp[0..3] before encoding
TimeDispOf(msecTime) ==
    <<minuteOf(msecTime) \div 10, minuteOf(msecTime) % 10,
      secondOf(msecTime) \div 10, secondOf(msecTime) % 10>>

\* TimeDisp[0..3] after encoding, the colon on the second digit
EncodedOf(td) ==
    <<encodeDigit(td[1]), Or80(encodeDigit(td[2])), encodeDigit(td[3]), encodeDigit(td[4])>>

\* memcmp(TimeDisp, LastTimeDisp, 4) != 0
Differs(td, last) == td # last

\* the copy taken of the digits, as the comparison on line 178 needs them
RememberedDigits(td) == td

\* what memcpy(LastTimeDisp, TimeDisp, 4) copies: TimeDisp as it is by then
Remembered(td) == EncodedOf(td)

\* d is the renderer's state [LastTimeDisp, display, dispLog]; dispLog.covered
\* tells that a glyph has been written over a countdown
dispTime(msecTime, d) ==
    LET td == TimeDispOf(msecTime)
        write == Differs(td, d.LastTimeDisp)
    IN  [LastTimeDisp |-> IF write THEN Remembered(td) ELSE d.LastTimeDisp,
         display |-> IF write THEN EncodedOf(td) ELSE d.display,
         dispLog |-> [arg |-> msecTime,
                      TimeDisp |-> td,
                      prevTimeDisp |-> d.dispLog.TimeDisp,
                      prevWritten |-> d.dispLog.written,
                      written |-> IF write THEN td ELSE d.dispLog.written,
                      wrote |-> write,
                      covered |-> d.dispLog.covered,
                      calls |-> IF d.dispLog.calls < 2 THEN d.dispLog.calls + 1 ELSE 2]]

\* tm1637.setSegments of a fixed glyph, which goes around dispTime
setGlyph(glyph, d) ==
    [d EXCEPT !.display = glyph, !.dispLog.covered = d.dispLog.calls > 0]

(***************************************************************************)
(* State after setup()                                                     *)
(***************************************************************************)
\* lastButtonReading starting as if the button had been read released
LastButtonReadingReleased == HIGH

\* static bool lastButtonReading = 0
LastButtonReadingInit == 0

\* the period with debugTimeMult left out of it
TimerPeriodFixed(mult) == USEC_PER_USTEP

\* Timer1.initialize(USEC_PER_USTEP / debugTimeMult)
TimerPeriodOf(mult) == USEC_PER_USTEP \div mult

Init ==
    /\ state = ST_INIT
    /\ lastButtonReading = LastButtonReadingInit
    /\ stopTime = FromInt(0)
    /\ steppingOn = FALSE
    /\ \/ bootReading = 0 /\ debugTimeMult = 60
       \/ bootReading = 1 /\ debugTimeMult = 1
    /\ LastTimeDisp = LastTimeDispInit
    /\ display = <<>>
    /\ enablePin = HIGH
    /\ stepPin = LOW
    /\ dirPin = LOW
    /\ timerPeriod = TimerPeriodOf(debugTimeMult)
    /\ clock = FromInt(0)
    /\ buttonWasPressed = FALSE
    /\ cycles = 0
    /\ dispLog = [arg |-> FromInt(0), TimeDisp |-> <<>>, prevTimeDisp |-> <<>>,
                  prevWritten |-> <<>>, written |-> <<>>, wrote |-> FALSE,
                  covered |-> FALSE, calls |-> 0]
    /\ runLog = [armRaw |-> FromInt(0), evalRaw |-> FromInt(0), prevRaw |-> FromInt(0),
                 checked |-> FALSE, endedBy |-> "none"]
    /\ readLog = [prev |-> [ms |-> FromInt(0), my |-> FromInt(0)],
                  cur |-> [ms |-> FromInt(0), my |-> FromInt(0)], reads |-> 0]
    /\ pc = <<"read", 0>>
    /\ newStateVar = ST_INIT
    /\ isrPc = "out"
    /\ isrLog = [firings |-> 0, observedOn |-> 0, pulses |-> 0]

(***************************************************************************)
(* Main loop                                                               *)
(***************************************************************************)
\* the press recognised by level, whatever the last reading was
PressEdgeByLevel(buttonReading, last) == buttonReading = 0

\* buttonWasPressed = (buttonReading == 0) && (lastButtonReading == 1)
PressEdge(buttonReading, last) == buttonReading = 0 /\ last = 1

\* the deadline compared with > for >=
DeadlineReachedStrict(now, stop) == WLess(stop, now)

\* myMillis() >= stopTime
DeadlineReached(now, stop) == U32Geq(now, stop)

\* the switch with Idle going straight to Run
NewStateSkipsHold(st, pressed, now, stop) ==
    CASE st = ST_INIT -> ST_IDLE
      [] st = ST_IDLE -> IF pressed THEN ST_RUN ELSE st
      [] st = ST_HOLD -> IF pressed THEN ST_RUN ELSE st
      [] st = ST_RUN -> IF pressed \/ DeadlineReached(now, stop) THEN ST_IDLE ELSE st
      [] OTHER -> st

\* the switch with Init waiting for the button like the other states
NewStateInitWaits(st, pressed, now, stop) ==
    CASE st = ST_INIT -> IF pressed THEN ST_IDLE ELSE st
      [] st = ST_IDLE -> IF pressed THEN ST_HOLD ELSE st
      [] st = ST_HOLD -> IF pressed THEN ST_RUN ELSE st
      [] st = ST_RUN -> IF pressed \/ DeadlineReached(now, stop) THEN ST_IDLE ELSE st
      [] OTHER -> st

\* the switch on state that determines newState
NewState(st, pressed, now, stop) ==
    CASE st = ST_INIT -> ST_IDLE
      [] st = ST_IDLE -> IF pressed THEN ST_HOLD ELSE st
      [] st = ST_HOLD -> IF pressed THEN ST_RUN ELSE st
      [] st = ST_RUN -> IF pressed \/ DeadlineReached(now, stop) THEN ST_IDLE ELSE st
      [] OTHER -> st

\* the actions of a transition taken in every execution of loop()
ChangedAlways(st, newState) == TRUE

\* if (state != newState)
Changed(st, newState) == st # newState

\* the Idle actions without steppingOn = false
SteppingAfterIdleKeeps(newState, old) ==
    CASE newState = ST_HOLD -> FALSE
      [] newState = ST_RUN -> TRUE
      [] OTHER -> old

\* steppingOn after the actions of a transition into newState
SteppingAfter(newState, old) ==
    CASE newState = ST_IDLE -> FALSE
      [] newState = ST_HOLD -> FALSE
      [] newState = ST_RUN -> TRUE
      [] OTHER -> old

\* the Hold actions without the write of STEPPER_ENABLE_PIN
EnableAfterHoldKeeps(newState, old) ==
    CASE newState = ST_IDLE -> HIGH
      [] newState = ST_RUN -> LOW
      [] OTHER -> old

\* STEPPER_ENABLE_PIN after the actions of a transition into newState
EnableAfter(newState, old) ==
    CASE newState = ST_IDLE -> HIGH
      [] newState = ST_HOLD -> LOW
      [] newState = ST_RUN -> LOW
      [] OTHER -> old

\* the deadline with a zero dropped from the duration
ArmedShort(now) == U32Add(now, FromInt(300000))

\* stopTime = myMillis() + MAX_DURATION_MSEC, myMillis() having returned now
Armed(now) == U32Add(now, MAX_DURATION_MSEC)

\* the display after the actions of a transition into newState
ShownAfter(newState, d) ==
    CASE newState = ST_IDLE -> setGlyph(IdleDisp, d)
      [] newState = ST_HOLD -> setGlyph(HoldDisp, d)
      [] newState = ST_RUN -> dispTime(MAX_DURATION_MSEC, d)
      [] OTHER -> d

\* the countdown of the time elapsed since the deadline was armed
CountdownElapsed(stop, now, d) == dispTime(U32Sub(now, U32Sub(stop, MAX_DURATION_MSEC)), d)

\* dispTime(stopTime - myMillis()), myMillis() having returned now
Countdown(stop, now, d) == dispTime(U32Sub(stop, now), d)

\* One execution of loop() and its delay(10).  The button reads buttonReading;
\* j1 ms pass before the clock read that arms the deadline, j2 ms before the
\* one that redraws the countdown (none where the clock is not read).
Loop(buttonReading, j1, j2) ==
    LET pressed == PressEdge(buttonReading, lastButtonReading)
        examines == state = ST_RUN /\ ~pressed
        newState == NewState(state, pressed, myMillis(clock), stopTime)
        changed == Changed(state, newState)
        enters == changed /\ newState = ST_RUN
        c269 == WAddInt(clock, j1)
        c280 == WAddInt(c269, j2)
        stop == IF enters THEN Armed(myMillis(c269)) ELSE stopTime
        d0 == [LastTimeDisp |-> LastTimeDisp, display |-> display, dispLog |-> dispLog]
        d1 == IF changed THEN ShownAfter(newState, d0) ELSE d0
        d2 == IF newState = ST_RUN THEN Countdown(stop, myMillis(c280), d1) ELSE d1
        r1 == IF examines THEN PushRead(readLog, clock) ELSE readLog
        r2 == IF enters THEN PushRead(r1, c269) ELSE r1
        r3 == IF newState = ST_RUN THEN PushRead(r2, c280) ELSE r2
    IN  /\ cycles < MaxCycles
        /\ enters \/ j1 = 0
        /\ newState = ST_RUN \/ j2 = 0
        /\ buttonWasPressed' = pressed
        /\ lastButtonReading' = buttonReading
        /\ state' = newState
        /\ steppingOn' = IF changed THEN SteppingAfter(newState, steppingOn) ELSE steppingOn
        /\ enablePin' = IF changed THEN EnableAfter(newState, enablePin) ELSE enablePin
        /\ stopTime' = stop
        /\ LastTimeDisp' = d2.LastTimeDisp
        /\ display' = d2.display
        /\ dispLog' = d2.dispLog
        /\ readLog' = r3
        /\ runLog' =
              IF enters
              THEN [armRaw |-> c269, evalRaw |-> c269, prevRaw |-> c269,
                    checked |-> FALSE, endedBy |-> "none"]
              ELSE IF state = ST_RUN
              THEN [runLog EXCEPT
                      !.prevRaw = IF examines THEN runLog.evalRaw ELSE @,
                      !.evalRaw = IF examines THEN clock ELSE @,
                      !.checked = IF examines THEN TRUE ELSE @,
                      !.endedBy = IF ~changed THEN "none"
                                  ELSE IF pressed THEN "button" ELSE "deadline"]
              ELSE runLog
        /\ clock' = WAddInt(c280, LOOP_DELAY_MSEC)
        /\ cycles' = cycles + 1
        /\ UNCHANGED <<debugTimeMult, bootReading, stepPin, dirPin, timerPeriod,
                       pc, newStateVar, isrPc, isrLog>>

\* The batches of QuietCycles under each multiplier: the number of cycles and
\* the milliseconds each takes, its delay(10) and what its statements take.
\* They lead to the deadline of a Run and to the rollover of the logical clock.
QuietBatches(mult) ==
    IF mult = 60
    THEN {<<4998, 10>>, <<7153280, 10>>}
    ELSE {<<299998, 10>>, <<429196726, 10>>, <<272727, 11>>}

\* n consecutive executions of loop(), each taking period milliseconds, in
\* which the button reads what it read before and nothing changes the state.
\* In ST_RUN the batch stays within one period of the logical clock and below
\* the deadline, so that none of its n examinations reaches it.
QuietCycles(n, period) ==
    LET elapsed(k) == WMul(FromInt(k), period)
        cLast == WAdd(clock, elapsed(n - 1))
        cPrev == WAdd(clock, elapsed(n - 2))
        d0 == [LastTimeDisp |-> LastTimeDisp, display |-> display, dispLog |-> dispLog]
        d1 == Countdown(stopTime, myMillis(cPrev), d0)
        d2 == Countdown(stopTime, myMillis(cLast), d1)
    IN  /\ cycles < MaxCycles
        /\ period - LOOP_DELAY_MSEC \in 0..MaxJitter
        /\ state \in {ST_IDLE, ST_HOLD, ST_RUN}
        /\ state = ST_RUN =>
              /\ Epoch(LogicalTime(cLast)) = Epoch(LogicalTime(clock))
              /\ ~DeadlineReached(myMillis(cLast), stopTime)
        /\ buttonWasPressed' = FALSE
        /\ IF state = ST_RUN
           THEN /\ LastTimeDisp' = d2.LastTimeDisp
                /\ display' = d2.display
                /\ dispLog' = d2.dispLog
                /\ readLog' = [PushRead(PushRead(readLog, cLast), cLast)
                                 EXCEPT !.reads = Counted(readLog.reads + 2 * n)]
                /\ runLog' = [runLog EXCEPT !.prevRaw = cPrev, !.evalRaw = cLast,
                                            !.checked = TRUE, !.endedBy = "none"]
           ELSE UNCHANGED <<LastTimeDisp, display, dispLog, readLog, runLog>>
        /\ clock' = WAdd(clock, elapsed(n))
        /\ cycles' = cycles + 1
        /\ UNCHANGED <<state, lastButtonReading, stopTime, steppingOn, enablePin,
                       debugTimeMult, bootReading, stepPin, dirPin, timerPeriod,
                       pc, newStateVar, isrPc, isrLog>>

LoopStep == \E buttonReading \in {0, 1}, j1, j2 \in 0..MaxJitter : Loop(buttonReading, j1, j2)

QuietStep == \E batch \in QuietBatches(debugTimeMult) : QuietCycles(batch[1], batch[2])

Next == LoopStep \/ QuietStep

Spec == Init /\ [][Next]_vars

(***************************************************************************)
(* The renderer alone: dispTime called with durations from DispInputs      *)
(***************************************************************************)
\* whole seconds around every change of a displayed digit
SecSample == {0, 1, 9, 10, 59, 60, 599, 600, 2999, 3000, 5939, 5940, 5998, 5999}

\* stopTime - myMillis() just after the deadline, which wraps
WrappedRemaining ==
    {U32Sub(Armed(FromInt(t0)), FromInt(t0 + 3000000 + late)) :
        t0 \in {0, 1800}, late \in {1, 2, 60, 600}}

DispInputs ==
    {FromInt(1000 * sec + ms) : sec \in SecSample, ms \in {0, 1, 999}}
    \cup {FromInt(6000000), FromInt(6000001), FromInt(6000999), <<32768, 0>>,
          <<65535, 64536>>, <<65535, 64537>>, <<65535, 65535>>}
    \cup WrappedRemaining

DispCall(msecTime) ==
    LET d == dispTime(msecTime, [LastTimeDisp |-> LastTimeDisp, display |-> display,
                                 dispLog |-> dispLog])
    IN  /\ LastTimeDisp' = d.LastTimeDisp
        /\ display' = d.display
        /\ dispLog' = d.dispLog
        /\ UNCHANGED <<state, lastButtonReading, stopTime, steppingOn, debugTimeMult,
                       bootReading, enablePin, stepPin, dirPin, timerPeriod, clock,
                       buttonWasPressed, cycles, runLog, readLog,
                       pc, newStateVar, isrPc, isrLog>>

DispNext == \E msecTime \in DispInputs : DispCall(msecTime)

SpecDisp == Init /\ [][DispNext]_vars

(***************************************************************************)
(* The time source alone: myMillis() called as the raw clock advances      *)
(***************************************************************************)
\* raw milliseconds between two calls
ClockAdvances == {0, 1, 10, 49980, 71582780}

ReadCall(adv) ==
    /\ readLog.reads < MaxReads
    /\ clock' = WAdd(clock, FromInt(adv))
    /\ readLog' = PushRead(readLog, clock')
    /\ UNCHANGED <<state, lastButtonReading, stopTime, steppingOn, debugTimeMult,
                   bootReading, LastTimeDisp, display, enablePin, stepPin, dirPin,
                   timerPeriod, buttonWasPressed, cycles, dispLog, runLog,
                   pc, newStateVar, isrPc, isrLog>>

ClockNext == \E adv \in ClockAdvances : ReadCall(adv)

SpecClock == Init /\ [][ClockNext]_vars

(***************************************************************************)
(* loop() statement by statement, interrupted by takeStepISR               *)
(***************************************************************************)
\* executions of loop() in one behaviour of SpecISR
MaxLoops == 10

\* firings of takeStepISR in one behaviour of SpecISR
MaxFirings == 3

\* the statements of the case of newState in the second switch, in their order
EffectOrder(ns) ==
    CASE ns = ST_IDLE -> <<"show", "enable", "stepping">>
      [] ns = ST_HOLD -> <<"show", "stepping", "enable">>
      [] ns = ST_RUN -> <<"show", "stepping", "enable", "arm">>
      [] OTHER -> <<>>

\* the callback pulsing whatever steppingOn is
IsrTakesStepAlways(on) == TRUE

\* if (steppingOn)
IsrTakesStep(on) == on

\* the callback clearing steppingOn as it runs
IsrFrameClearsFlag ==
    /\ steppingOn' = FALSE
    /\ UNCHANGED <<state, lastButtonReading, stopTime, enablePin, display>>

\* what of the main loop's variables and outputs the callback assigns: nothing
IsrFrame == UNCHANGED <<state, lastButtonReading, stopTime, steppingOn, enablePin, display>>

\* the rest of the model, which neither context's stepwise statements concern
StepwiseFrame == UNCHANGED <<debugTimeMult, bootReading, dirPin, timerPeriod, runLog, readLog>>

\* lines 217-219: the button is read and compared with the last reading
ReadButton(buttonReading) ==
    /\ isrPc = "out"
    /\ pc = <<"read", 0>>
    /\ cycles < MaxLoops
    /\ buttonWasPressed' = PressEdge(buttonReading, lastButtonReading)
    /\ lastButtonReading' = buttonReading
    /\ pc' = <<"decide", 0>>
    /\ StepwiseFrame
    /\ UNCHANGED <<state, stopTime, steppingOn, LastTimeDisp, display, enablePin, stepPin,
                   clock, cycles, dispLog, newStateVar, isrPc, isrLog>>

\* lines 221-250: the first switch sets newState, which is compared with state
Decide ==
    /\ isrPc = "out"
    /\ pc = <<"decide", 0>>
    /\ newStateVar' = NewState(state, buttonWasPressed, myMillis(clock), stopTime)
    /\ pc' = IF Changed(state, newStateVar') THEN <<"effect", 1>> ELSE <<"redraw", 0>>
    /\ StepwiseFrame
    /\ UNCHANGED <<state, lastButtonReading, stopTime, steppingOn, LastTimeDisp, display,
                   enablePin, stepPin, clock, buttonWasPressed, cycles, dispLog,
                   isrPc, isrLog>>

\* lines 251-274: one statement of the case of newState
Effect ==
    LET order == EffectOrder(newStateVar)
        stmt == order[pc[2]]
        d0 == [LastTimeDisp |-> LastTimeDisp, display |-> display, dispLog |-> dispLog]
        d1 == IF stmt = "show" THEN ShownAfter(newStateVar, d0) ELSE d0
    IN  /\ isrPc = "out"
        /\ pc[1] = "effect"
        /\ LastTimeDisp' = d1.LastTimeDisp
        /\ display' = d1.display
        /\ dispLog' = d1.dispLog
        /\ steppingOn' = IF stmt = "stepping"
                         THEN SteppingAfter(newStateVar, steppingOn) ELSE steppingOn
        /\ enablePin' = IF stmt = "enable"
                        THEN EnableAfter(newStateVar, enablePin) ELSE enablePin
        /\ stopTime' = IF stmt = "arm" THEN Armed(myMillis(clock)) ELSE stopTime
        /\ pc' = IF pc[2] < Len(order) THEN <<"effect", pc[2] + 1>> ELSE <<"commit", 0>>
        /\ StepwiseFrame
        /\ UNCHANGED <<state, lastButtonReading, stepPin, clock, buttonWasPressed, cycles,
                       newStateVar, isrPc, isrLog>>

\* line 275: state = newState
Commit ==
    /\ isrPc = "out"
    /\ pc = <<"commit", 0>>
    /\ state' = newStateVar
    /\ pc' = <<"redraw", 0>>
    /\ StepwiseFrame
    /\ UNCHANGED <<lastButtonReading, stopTime, steppingOn, LastTimeDisp, display, enablePin,
                   stepPin, clock, buttonWasPressed, cycles, dispLog, newStateVar,
                   isrPc, isrLog>>

\* lines 279-281: the countdown is redrawn while the state is Run
Redraw ==
    LET d0 == [LastTimeDisp |-> LastTimeDisp, display |-> display, dispLog |-> dispLog]
        d1 == IF state = ST_RUN THEN Countdown(stopTime, myMillis(clock), d0) ELSE d0
    IN  /\ isrPc = "out"
        /\ pc = <<"redraw", 0>>
        /\ LastTimeDisp' = d1.LastTimeDisp
        /\ display' = d1.display
        /\ dispLog' = d1.dispLog
        /\ pc' = <<"delay", 0>>
        /\ StepwiseFrame
        /\ UNCHANGED <<state, lastButtonReading, stopTime, steppingOn, enablePin, stepPin,
                       clock, buttonWasPressed, cycles, newStateVar, isrPc, isrLog>>

\* line 284: delay(10), which ends this execution of loop()
Delay ==
    /\ isrPc = "out"
    /\ pc = <<"delay", 0>>
    /\ clock' = WAddInt(clock, LOOP_DELAY_MSEC)
    /\ cycles' = cycles + 1
    /\ pc' = <<"read", 0>>
    /\ StepwiseFrame
    /\ UNCHANGED <<state, lastButtonReading, stopTime, steppingOn, LastTimeDisp, display,
                   enablePin, stepPin, buttonWasPressed, dispLog, newStateVar, isrPc, isrLog>>

\* Timer1 fires: takeStepISR tests steppingOn and, if it finds it set, raises
\* STEPPER_STEP_PIN and waits its 100 microseconds
IsrFire ==
    /\ isrPc = "out"
    /\ isrLog.firings < MaxFirings
    /\ IF IsrTakesStep(steppingOn)
       THEN stepPin' = HIGH /\ isrPc' = "pulse"
       ELSE UNCHANGED <<stepPin, isrPc>>
    /\ isrLog' = [isrLog EXCEPT !.firings = @ + 1,
                                !.observedOn = IF steppingOn THEN @ + 1 ELSE @]
    /\ IsrFrame
    /\ StepwiseFrame
    /\ UNCHANGED <<LastTimeDisp, clock, buttonWasPressed, cycles, dispLog, pc, newStateVar>>

\* takeStepISR lowers STEPPER_STEP_PIN and returns
IsrReturn ==
    /\ isrPc = "pulse"
    /\ stepPin' = LOW
    /\ isrPc' = "out"
    /\ isrLog' = [isrLog EXCEPT !.pulses = IF stepPin = HIGH THEN @ + 1 ELSE @]
    /\ IsrFrame
    /\ StepwiseFrame
    /\ UNCHANGED <<LastTimeDisp, clock, buttonWasPressed, cycles, dispLog, pc, newStateVar>>

ReadStep == \E buttonReading \in {0, 1} : ReadButton(buttonReading)

NextISR ==
    ReadStep \/ Decide \/ Effect \/ Commit \/ Redraw \/ Delay \/ IsrFire \/ IsrReturn

SpecISR == Init /\ [][NextISR]_vars

(***************************************************************************)
(* Properties                                                              *)
(***************************************************************************)
\* the next state along Init -> Idle -> Hold -> Run -> Idle
Successor(st) ==
    CASE st = ST_INIT -> ST_IDLE
      [] st = ST_IDLE -> ST_HOLD
      [] st = ST_HOLD -> ST_RUN
      [] st = ST_RUN -> ST_IDLE

\* C1: an execution of loop() leaves the state alone or moves it one step
\* along Idle -> Hold -> Run -> Idle, and one that reads a press-edge (0 after
\* 1) moves it exactly one step: Idle to Hold, Hold to Run, Run to Idle.
C1_PressEdgeAdvancesOneStep ==
    [][/\ state' # state => state' = Successor(state)
       /\ (lastButtonReading = 1 /\ lastButtonReading' = 0) =>
              /\ state \in {ST_IDLE, ST_HOLD, ST_RUN}
              /\ state' = Successor(state)]_vars

\* a press-edge has just moved Hold to Run
C1_Witness == buttonWasPressed /\ lastButtonReading = 0 /\ state = ST_RUN

\* C2: at the end of every execution of loop(), steppingOn is true exactly
\* when the state is Run.
C2_SteppingIffRun == steppingOn <=> (state = ST_RUN)

\* a Run has ended at its deadline and stepping is off again
C2_Witness == state = ST_IDLE /\ runLog.endedBy = "deadline" /\ ~steppingOn

\* C9: the first execution of loop() moves Init to Idle whatever the button
\* reads, shows the Idle glyph and leaves the motor driver disabled and
\* stepping off; the state is Init before it and never again after it.
C9_InitGoesToIdleOnce ==
    /\ [](state = ST_INIT <=> cycles = 0)
    /\ [][state = ST_INIT =>
             /\ state' = ST_IDLE
             /\ display' = IdleDisp
             /\ enablePin' = HIGH
             /\ ~steppingOn']_vars

\* the first execution, with the button read pressed, has ended in Idle
C9_Witness ==
    /\ cycles = 1 /\ lastButtonReading = 0
    /\ state = ST_IDLE /\ display = IdleDisp /\ enablePin = HIGH /\ ~steppingOn

\* C10: at the end of every execution of loop(), the motor driver is enabled
\* (STEPPER_ENABLE_PIN is LOW) exactly when the state is Hold or Run.
C10_MotorEnabledIffHoldOrRun == (enablePin = LOW) <=> (state \in {ST_HOLD, ST_RUN})

\* Hold, with the driver enabled, after an earlier Run that the button ended
C10_Witness == state = ST_HOLD /\ enablePin = LOW /\ runLog.endedBy = "button"

\* Logical times of the current (or last) Run, without the reduction modulo
\* 2^32: when the deadline was armed, when it was last examined, and the
\* clock read before that examination.
ArmLogical == LogicalTime(runLog.armRaw)

EvalLogical == LogicalTime(runLog.evalRaw)

PrevLogical == LogicalTime(runLog.prevRaw)

DeadlineLogical == WAdd(ArmLogical, MAX_DURATION_MSEC)

\* The 32-bit logical clock does not roll over between the arming and the
\* deadline, nor between the arming and the last examination.
NoRollover ==
    /\ Epoch(DeadlineLogical) = Epoch(ArmLogical)
    /\ Epoch(EvalLogical) = Epoch(ArmLogical)

\* A Run has ended at an examination at or after t0 + 3,000,000 that came
\* less than one cycle period after it.
EndsInTime == WLeq(DeadlineLogical, EvalLogical) /\ WLess(PrevLogical, DeadlineLogical)

\* The original statement of C3: a Run that no press-edge ends leaves for Idle
\* at an examination at logical time >= t0 + 3,000,000 and less than one cycle
\* period later, and no Run goes on after an examination at or after
\* t0 + 3,000,000, whatever t0 is.
C3_RunDurationAnyTime ==
    /\ runLog.endedBy = "deadline" => EndsInTime
    /\ (state = ST_RUN /\ runLog.checked) => WLess(EvalLogical, DeadlineLogical)

\* C3 (amended): as long as the 32-bit logical clock does not roll over
\* between the arming of the deadline at t0 and the examination, a Run that no
\* press-edge ends leaves for Idle at an examination at logical time
\* >= t0 + 3,000,000 and less than one cycle period later, and no Run goes on
\* after an examination at or after t0 + 3,000,000.
C3_RunDurationNoRollover ==
    /\ (runLog.endedBy = "deadline" /\ NoRollover) => EndsInTime
    /\ (state = ST_RUN /\ runLog.checked /\ NoRollover) =>
          WLess(EvalLogical, DeadlineLogical)

\* a Run without rollover has ended at its deadline
C3_Witness ==
    /\ state = ST_IDLE /\ runLog.endedBy = "deadline" /\ NoRollover
    /\ ~buttonWasPressed /\ EndsInTime

\* Raw milliseconds of the last Run, arming to last examination, and of the
\* cycle that ended with that examination.
RunRaw == WSub(runLog.evalRaw, runLog.armRaw)

PeriodRaw == WSub(runLog.evalRaw, runLog.prevRaw)

NominalRaw == FromInt(3000000 \div debugTimeMult)

\* C4: for either multiplier and whatever the raw clock is when it starts, a
\* Run that no press-edge ends lasts 3,000,000 / debugTimeMult raw
\* milliseconds, give or take one cycle period.
C4_RawRunDuration ==
    runLog.endedBy = "deadline" =>
        /\ WLeq(NominalRaw, WAdd(RunRaw, PeriodRaw))
        /\ WLeq(RunRaw, WAdd(NominalRaw, PeriodRaw))

\* the least number of whole seconds that covers ms milliseconds
CeilSeconds(ms) == IF ms % 1000 = 0 THEN ms \div 1000 ELSE (ms \div 1000) + 1

IsDigit(x) == x \in 0..9

\* C5: for every duration d below 6,000,000 ms, dispTime(d) takes
\* s = ceil(d / 1000), minutes = s div 60 and seconds = s mod 60, gives
\* encodeDigit four values in 0..9, two for the minutes and two for the
\* seconds, and sets bit 0x80 on the second digit it writes.
C5_TwoDigitsBelowThreshold ==
    (dispLog.calls > 0 /\ WLess(dispLog.arg, DISP_EXPIRED_MSEC)) =>
        LET s == CeilSeconds(ToInt(dispLog.arg))
            td == dispLog.TimeDisp
        IN  /\ \A i \in 1..4 : IsDigit(td[i])
            /\ 10 * td[1] + td[2] = s \div 60
            /\ 10 * td[3] + td[4] = s % 60
            /\ dispLog.wrote => display[2] >= 128

\* the segments of 00:00
ZeroTime == <<63, 191, 63, 63>>

\* C6: for every 32-bit duration d >= 6,000,000 ms, wrapped differences
\* stopTime - myMillis() included, dispTime(d) yields the digits 0,0,0,0, and
\* 00:00 is what it writes if it writes, whether or not d + 999 overflows.
C6_ExpiredShowsZero ==
    (dispLog.calls > 0 /\ WLeq(DISP_EXPIRED_MSEC, dispLog.arg)) =>
        /\ dispLog.TimeDisp = <<0, 0, 0, 0>>
        /\ dispLog.wrote => display = ZeroTime

\* 00:00 has been written for a wrapped difference whose d + 999 overflows
C6_Witness ==
    /\ dispLog.arg \in WrappedRemaining
    /\ Epoch(WAdd(dispLog.arg, FromInt(999))) = 1
    /\ dispLog.wrote /\ display = ZeroTime

\* C7: a call of dispTime whose digits are those of the call before it writes
\* nothing, and a call that writes shows digits that differ from those of the
\* write before it.
C7_ChangeSuppression ==
    /\ (dispLog.calls > 1 /\ dispLog.TimeDisp = dispLog.prevTimeDisp) => ~dispLog.wrote
    /\ dispLog.wrote => dispLog.TimeDisp # dispLog.prevWritten

\* C8: of two successive calls of myMillis(), the second returns no less than
\* the first whenever the raw millis() of the second is no less than that of
\* the first.
C8_LogicalClockMonotone ==
    (readLog.reads > 1 /\ WLeq(readLog.prev.ms, readLog.cur.ms)) =>
        WLeq(readLog.prev.my, readLog.cur.my)

\* C11: a firing of takeStepISR drives STEPPER_STEP_PIN HIGH and then LOW
\* exactly once if it finds steppingOn set and leaves the pin alone if not;
\* outside the callback the pin is LOW, and the pulses made so far are as
\* many as the firings that found steppingOn set.
C11_OnePulsePerObservedFiring ==
    /\ isrPc = "out" => stepPin = LOW /\ isrLog.pulses = isrLog.observedOn
    /\ isrPc = "pulse" => stepPin = HIGH /\ isrLog.pulses + 1 = isrLog.observedOn

\* one firing has made its pulse and another found steppingOn clear
C11_Witness ==
    isrPc = "out" /\ isrLog.pulses >= 1 /\ isrLog.firings > isrLog.observedOn

\* C12: a step of takeStepISR leaves steppingOn, state, stopTime,
\* lastButtonReading, STEPPER_ENABLE_PIN and the display as they are; a
\* statement of loop() leaves STEPPER_STEP_PIN as it is; and steppingOn
\* changes only in a statement of the transition effects of loop().
C12_ContextsShareOnlySteppingOn ==
    [][/\ (isrPc' # isrPc \/ isrLog' # isrLog) =>
              UNCHANGED <<steppingOn, state, stopTime, lastButtonReading, enablePin,
                          display>>
       /\ pc' # pc => stepPin' = stepPin
       /\ steppingOn' # steppingOn => pc[1] = "effect"]_vars

\* the callback has pulsed during a Run, and loop() has since cleared steppingOn
C12_Witness == isrLog.pulses >= 1 /\ ~steppingOn /\ pc = <<"commit", 0>>

\* C18: wherever takeStepISR can interrupt loop(), steppingOn set implies
\* STEPPER_ENABLE_PIN LOW, and no pulse is under way while the pin is HIGH.
C18_SteppingImpliesDriverEnabled ==
    /\ steppingOn => enablePin = LOW
    /\ stepPin = HIGH => enablePin = LOW

C14_EffectsOncePerChange ==
    [][/\ pc[1] = "effect" => state # newStateVar
       /\ pc[1] # "effect" =>
              /\ UNCHANGED <<enablePin, steppingOn, stopTime>>
              /\ display' # display => display' \notin {IdleDisp, HoldDisp}
       /\ (pc = <<"commit", 0>> /\ pc' # pc) =>
              /\ newStateVar = ST_IDLE =>
                    display = IdleDisp /\ enablePin = HIGH /\ ~steppingOn
              /\ newStateVar = ST_HOLD =>
                    display = HoldDisp /\ enablePin = LOW /\ ~steppingOn
              /\ newStateVar = ST_RUN =>
                    /\ dispLog.arg = MAX_DURATION_MSEC
                    /\ steppingOn
                    /\ enablePin = LOW
                    /\ stopTime = U32Add(myMillis(clock), MAX_DURATION_MSEC)]_vars

\* an execution of loop() in Run has found nothing to change and is at its delay
C14_Witness == pc = <<"delay", 0>> /\ state = ST_RUN /\ ~buttonWasPressed

\* C15: stopTime changes only in an execution of loop() that enters Run, and
\* such an execution sets it to the 32-bit sum of 3,000,000 and the value
\* myMillis() returned on line 269; it then stays until Run is entered again.
C15_StopTimeSetOnEnteringRun ==
    [][/\ stopTime' # stopTime => state # ST_RUN /\ state' = ST_RUN
       /\ (state # ST_RUN /\ state' = ST_RUN) =>
              stopTime' = U32Add(myMillisOf(runLog'.armRaw, debugTimeMult),
                                 MAX_DURATION_MSEC)]_vars

\* a Run whose deadline wrapped past 2^32 has ended, and stopTime is still
\* what entering that Run made it
C15_Witness ==
    /\ state = ST_IDLE
    /\ runLog.endedBy # "none"
    /\ WLess(stopTime, MAX_DURATION_MSEC)
    /\ stopTime = U32Add(myMillisOf(runLog.armRaw, debugTimeMult), MAX_DURATION_MSEC)

\* C16: buttonWasPressed is set, and a transition other than Init's and the
\* deadline's is taken, only by an execution of loop() that reads the button
\* pressed (0) after the execution before it read it released (1); so a
\* button held pressed drives no second transition, and a reading of 1 lies
\* between any two transitions the button drives.
C16_PressNeedsReleaseBefore ==
    [][LET buttonDriven ==
               /\ state' # state
               /\ state # ST_INIT
               /\ ~(state = ST_RUN /\ runLog'.endedBy = "deadline")
       IN  (buttonDriven \/ buttonWasPressed') =>
               lastButtonReading = 1 /\ lastButtonReading' = 0]_vars

\* the button has been read pressed again after the press that led to Hold,
\* and the state is still Hold
C16_Witness ==
    state = ST_HOLD /\ lastButtonReading = 0 /\ ~buttonWasPressed /\ cycles >= 3

\* C17: at every point after setup(), in loop() and in takeStepISR alike,
\* debugTimeMult is 60 if setup() read the button pressed (0) and 1 if not,
\* the period of Timer1 is 100093 / debugTimeMult microseconds, and
\* STEPPER_DIR_PIN is LOW.
C17_BootConfigurationFrozen ==
    /\ debugTimeMult = IF bootReading = 0 THEN 60 ELSE 1
    /\ timerPeriod = IF bootReading = 0 THEN USEC_PER_USTEP \div 60 ELSE USEC_PER_USTEP
    /\ dirPin = LOW

\* booted with the button pressed; since then the button has been released,
\* executions of loop() have ended and takeStepISR has fired
C17_Witness ==
    /\ bootReading = 0
    /\ lastButtonReading = 1
    /\ cycles >= 2
    /\ isrLog.firings >= 1
    /\ timerPeriod = 1668

\* C20: lastButtonReading is 0 before the first execution of loop(), which
\* therefore recognises no press and ends in Idle; an execution that reads
\* the button pressed after one that read it pressed, or after boot, leaves
\* Init and Idle for Idle only; and Idle is left for Hold only by reading
\* the button pressed after it was read released.
C20_HeldAtBootStaysIdle ==
    [][/\ cycles = 0 =>
              lastButtonReading = 0 /\ ~buttonWasPressed' /\ state' = ST_IDLE
       /\ (lastButtonReading = 0 /\ lastButtonReading' = 0
              /\ state \in {ST_INIT, ST_IDLE}) => state' = ST_IDLE
       /\ (state = ST_IDLE /\ state' # ST_IDLE) =>
              state' = ST_HOLD /\ lastButtonReading = 1 /\ lastButtonReading' = 0]_vars

\* booted with the button pressed and read pressed in all three executions
\* of loop() since: the state is Idle
C20_Witness ==
    bootReading = 0 /\ cycles = 3 /\ lastButtonReading = 0 /\ state = ST_IDLE

\* seconds that the digits td of a countdown stand for
SecondsShown(td) == (10 * td[1] + td[2]) * 60 + 10 * td[3] + td[4]

\* What C19 says of the calls of dispTime made in the current Run: the last
\* duration passed is within 0..3,000,000 or at least 6,000,000, its minutes
\* are within 00..50 and its seconds within 00..59, the call that entered the
\* Run wrote 50:00, and the last countdown written is not above the one
\* written before it.
CountdownAsClaimed ==
    /\ WLeq(dispLog.arg, MAX_DURATION_MSEC) \/ U32Geq(dispLog.arg, DISP_EXPIRED_MSEC)
    /\ 10 * dispLog.TimeDisp[1] + dispLog.TimeDisp[2] \in 0..50
    /\ 10 * dispLog.TimeDisp[3] + dispLog.TimeDisp[4] \in 0..59
    /\ display = EncodedOf(dispLog.TimeDisp)
    /\ buttonWasPressed => dispLog.prevWritten = <<5, 0, 0, 0>>
    /\ SecondsShown(dispLog.written) <= SecondsShown(dispLog.prevWritten)

\* the 32-bit logical clock has not rolled over between the arming of the
\* deadline and the last clock read of the Run
NotRolledSinceArmed ==
    Epoch(LogicalTime(WSub(clock, FromInt(LOOP_DELAY_MSEC)))) = Epoch(ArmLogical)

\* The original statement of C19: in any Run, whatever the clock does, the
\* durations passed to dispTime are within 0..3,000,000 or at least
\* 6,000,000, the countdown shows minutes 00..50 and seconds 00..59, starts
\* at 50:00 and never increases.
C19_CountdownAnyTime == state = ST_RUN => CountdownAsClaimed

\* C19 (amended): in a Run during which the 32-bit logical clock has not
\* rolled over since the deadline was armed, the durations passed to
\* dispTime are within 0..3,000,000 or at least 6,000,000, the countdown
\* shows minutes 00..50 and seconds 00..59, starts at 50:00 and never
\* increases.
C19_CountdownNoRollover ==
    (state = ST_RUN /\ NotRolledSinceArmed) => CountdownAsClaimed

\* a Run without rollover has counted down to its last second
C19_Witness ==
    /\ state = ST_RUN
    /\ NotRolledSinceArmed
    /\ dispLog.written = <<0, 0, 0, 1>>
    /\ dispLog.prevWritten = <<0, 0, 0, 1>>
====
